---- MODULE Spec2Model ----
(***************************************************************************)
(* Model of comparator.ts: the NaturalOrder comparison function and the    *)
(* proxy-based comparatorBuilder (src/src/comparator-builder.ts).          *)
(***************************************************************************)
EXTENDS Integers, Sequences, FiniteSets, TLC

VARIABLES
    heap,          \* the comparatorChain arrays allocated so far: heap[i] is array i
    builders,      \* the builders created so far: builders[i].chain is the array it closes over
    reversedObjs,  \* the objects returned by reversed(): each closes over one builder
                   \* (made: the length of the chain when reversed() was called)
    extLog,        \* per builder, the chain-extension calls made on it, in call order
    last,          \* the last call of the builder API and its outcome
    a, b,          \* the two arguments handed to NaturalOrder / ReverseNaturalOrder
    natural,       \* outcome of NaturalOrder(a, b), once called
    reverse        \* outcome of ReverseNaturalOrder(a, b), once called

vars == <<heap, builders, reversedObjs, extLog, last, a, b, natural, reverse>>
builderVars == <<heap, builders, reversedObjs, extLog, last>>
naturalVars == <<a, b, natural, reverse>>

(***************************************************************************)
(* Bounds                                                                  *)
(***************************************************************************)
MaxStrLen == 1
MaxNum == 2
MaxExt == 2

(***************************************************************************)
(* JavaScript values.  Every value is a record of one shape:               *)
(*   t   : the kind of value                                               *)
(*   n   : the number (kind number) or the object's identity (kind object) *)
(*   s   : the string, a sequence of UTF-16 code units (kind string)       *)
(*   ct  : what the object's compareTo property holds                      *)
(*   key : the field a compareTo method orders its objects by              *)
(***************************************************************************)
Null == [t |-> "null", n |-> 0, s |-> <<>>, ct |-> "none", key |-> 0]
Undefined == [t |-> "undefined", n |-> 0, s |-> <<>>, ct |-> "none", key |-> 0]
NaN == [t |-> "nan", n |-> 0, s |-> <<>>, ct |-> "none", key |-> 0]
Num(i) == [t |-> "number", n |-> i, s |-> <<>>, ct |-> "none", key |-> 0]
Str(seq) == [t |-> "string", n |-> 0, s |-> seq, ct |-> "none", key |-> 0]
Obj(id, c, k) == [t |-> "object", n |-> id, s |-> <<>>, ct |-> c, key |-> k]
\* a field the record does not have: reading it yields undefined
Absent == [t |-> "absent", n |-> 0, s |-> <<>>, ct |-> "none", key |-> 0]

\* code units of '1', 'A', 'a', 'b', 'a-acute'
Alphabet == {49, 65, 97, 98, 225}
StringsUpTo(k) == UNION {[1..m -> Alphabet] : m \in 0..k}
Numbers == {Num(i) : i \in 0..MaxNum}
\* two objects with a compareTo method, two plain objects without one
Objects == {Obj(1, "function", 1), Obj(2, "function", 2),
            Obj(3, "undefined", 0), Obj(4, "undefined", 0)}
Values == {Null, Undefined, NaN} \cup Numbers
            \cup {Str(s) : s \in StringsUpTo(MaxStrLen)} \cup Objects

(***************************************************************************)
(* Outcome of a call: a returned number, a returned NaN, or an exception.  *)
(***************************************************************************)
Ret(i) == [k |-> "return", v |-> i, err |-> "none"]
RetNaN == [k |-> "nan", v |-> 0, err |-> "none"]
Throw(e) == [k |-> "throw", v |-> 0, err |-> e]
NotCalled == [k |-> "notCalled", v |-> 0, err |-> "none"]

(***************************************************************************)
(* The JavaScript operators NaturalOrder uses.                             *)
(***************************************************************************)
IsDigit(c) == c \in 48..57

RECURSIVE DecimalValue(_)
DecimalValue(s) ==
    IF s = <<>> THEN 0
    ELSE 10 * DecimalValue(SubSeq(s, 1, Len(s) - 1)) + (s[Len(s)] - 48)

\* "[object Object]", what a plain object converts to
ObjectString == <<91, 111, 98, 106, 101, 99, 116, 32, 79, 98, 106, 101, 99, 116, 93>>

\* ToPrimitive: an object becomes its string, every other value is itself
ToPrimitive(o) == IF o.t = "object" THEN Str(ObjectString) ELSE o

\* ToNumber of a primitive: [nan, n]
ToNumber(p) ==
    CASE p.t = "number" -> [nan |-> FALSE, n |-> p.n]
      [] p.t = "null" -> [nan |-> FALSE, n |-> 0]
      [] p.t = "string" /\ \A i \in 1..Len(p.s) : IsDigit(p.s[i]) ->
            [nan |-> FALSE, n |-> DecimalValue(p.s)]
      [] OTHER -> [nan |-> TRUE, n |-> 0]

IsNullish(o) == o.t \in {"null", "undefined"}

\* o1 === o2 in place of o1 == o2
StrictEq(o1, o2) == o1.t # "nan" /\ o1 = o2

\* o1 == o2 (abstract equality)
LooseEq(o1, o2) ==
    CASE IsNullish(o1) \/ IsNullish(o2) -> IsNullish(o1) /\ IsNullish(o2)
      [] o1.t = "object" /\ o2.t = "object" -> o1.n = o2.n
      [] o1.t = "string" /\ o2.t = "string" -> o1.s = o2.s
      [] OTHER ->
            LET p1 == ToPrimitive(o1)
                p2 == ToPrimitive(o2)
            IN  IF p1.t = "string" /\ p2.t = "string" THEN p1.s = p2.s
                ELSE /\ ~ToNumber(p1).nan
                     /\ ~ToNumber(p2).nan
                     /\ ToNumber(p1).n = ToNumber(p2).n

\* s1 > s2 by code units
RECURSIVE CodeUnitGreater(_, _)
CodeUnitGreater(s1, s2) ==
    IF s1 = <<>> THEN FALSE
    ELSE IF s2 = <<>> THEN TRUE
    ELSE IF s1[1] # s2[1] THEN s1[1] > s2[1]
    ELSE CodeUnitGreater(Tail(s1), Tail(s2))

\* x > y (abstract relational comparison)
GreaterThan(x, y) ==
    LET px == ToPrimitive(x)
        py == ToPrimitive(y)
    IN  IF px.t = "string" /\ py.t = "string" THEN CodeUnitGreater(px.s, py.s)
        ELSE /\ ~ToNumber(px).nan
             /\ ~ToNumber(py).nan
             /\ ToNumber(px).n > ToNumber(py).n

\* collation keys of a code unit: the base letter (digits before letters, an
\* accent does not change it) and the case (lower before upper)
PrimaryWeight(c) ==
    CASE IsDigit(c) -> c - 48
      [] c \in {65, 97, 225} -> 10
      [] c = 98 -> 11
      [] OTHER -> 12
CaseWeight(c) == IF c = 65 THEN 1 ELSE 0

PrimaryKey(s) == [i \in 1..Len(s) |-> PrimaryWeight(s[i])]
CaseKey(s) == [i \in 1..Len(s) |-> CaseWeight(s[i])]

\* three-way comparison of two key sequences, a proper prefix first
RECURSIVE KeyCompare(_, _)
KeyCompare(k1, k2) ==
    IF k1 = <<>> /\ k2 = <<>> THEN 0
    ELSE IF k1 = <<>> THEN -1
    ELSE IF k2 = <<>> THEN 1
    ELSE IF k1[1] < k2[1] THEN -1
    ELSE IF k1[1] > k2[1] THEN 1
    ELSE KeyCompare(Tail(k1), Tail(k2))

\* s1.localeCompare(s2, 'standard', { sensitivity: 'case' }): base letters
\* decide first, then case; accents are ignored
LocaleCompare(s1, s2) ==
    IF KeyCompare(PrimaryKey(s1), PrimaryKey(s2)) # 0
    THEN KeyCompare(PrimaryKey(s1), PrimaryKey(s2))
    ELSE KeyCompare(CaseKey(s1), CaseKey(s2))

\* whether a value is truthy (o && ...)
Truthy(o) ==
    CASE o.t \in {"null", "undefined", "nan", "absent"} -> FALSE
      [] o.t = "number" -> o.n # 0
      [] o.t = "string" -> o.s # <<>>
      [] OTHER -> TRUE

\* typeof o === 'object' holds of the objects only (null is not truthy)
isComparable(o) == Truthy(o) /\ o.t = "object" /\ o.ct # "null"

\* o1.compareTo(o2): the method is (other) => this.key - other.key, and only the
\* objects that have the method have a key; calling what is not a function raises
CompareTo(o1, o2) ==
    IF o1.ct # "function" THEN Throw("TypeError")
    ELSE IF o2.t = "object" /\ o2.ct = "function" THEN Ret(o1.key - o2.key)
    ELSE RetNaN

\* NaturalOrder after the equality fast path
NaturalOrderRest(o1, o2) ==
    IF IsNullish(o1) THEN Ret(-1)
    ELSE IF IsNullish(o2) THEN Ret(1)
    ELSE IF isComparable(o1) /\ isComparable(o2) THEN CompareTo(o1, o2)
    ELSE IF o1.t = "string" /\ o2.t = "string" THEN Ret(LocaleCompare(o1.s, o2.s))
    ELSE IF GreaterThan(o2, o1) THEN Ret(-1) ELSE Ret(1)

\* NaturalOrder without its equality fast path
NaturalOrderNoFastPath(o1, o2) == NaturalOrderRest(o1, o2)

NaturalOrder(o1, o2) ==
    IF LooseEq(o1, o2) THEN Ret(0) ELSE NaturalOrderRest(o1, o2)

ReverseNaturalOrder(o1, o2) == NaturalOrder(o2, o1)

(***************************************************************************)
(* The records compared, the arguments of a field-named operation and the  *)
(* compare functions a caller supplies.                                    *)
(***************************************************************************)
\* the records of type T handed to compare: foo a string, bar a number
Records == {[foo |-> Str(<<97>>), bar |-> Num(1)],
            [foo |-> Str(<<97>>), bar |-> Num(3)],
            [foo |-> Absent, bar |-> Num(1)]}
NoRecord == [foo |-> Absent, bar |-> Absent]

\* o[prop]: a field the record does not have reads as undefined
Get(o, prop) ==
    IF prop \in DOMAIN o /\ o[prop].t # "absent" THEN o[prop] ELSE Undefined

\* the argument x of a field-named operation: omitted, a function, an object
\* (f is what its compare property holds, "none" when it has none) or a number
Omitted == [k |-> "undefined", f |-> "none", n |-> 0]
FnArg(f) == [k |-> "function", f |-> f, n |-> 0]
ObjArg(f) == [k |-> "object", f |-> f, n |-> 0]
NumArg(n) == [k |-> "number", f |-> "none", n |-> n]

ArgTruthy(x) ==
    CASE x.k = "undefined" -> FALSE
      [] x.k = "number" -> x.n # 0
      [] OTHER -> TRUE

isComparator(x) == ArgTruthy(x) /\ x.k = "object" /\ x.f # "none"

\* the caller's compare functions, by name:
\*   sub    (o1, o2) => o1 - o2
\*   seven  () => 7
\*   byBar  (r1, r2) => r1.bar - r2.bar
Subtract(p, q) ==
    LET n1 == ToNumber(ToPrimitive(p))
        n2 == ToNumber(ToPrimitive(q))
    IN  IF n1.nan \/ n2.nan THEN RetNaN ELSE Ret(n1.n - n2.n)

Call(f, p, q) ==
    CASE f = "sub" -> Subtract(p, q)
      [] f = "seven" -> Ret(7)
      [] f = "byBar" -> Subtract(Get(p, "bar"), Get(q, "bar"))
      [] OTHER -> Throw("TypeError")

(***************************************************************************)
(* Chain entries (CompareWithProp).  compare is "closure" for the closure  *)
(* a field-named operation pushes (it keeps the argument x), and otherwise *)
(* names the function taken from the comparator given to thenComparing.    *)
(***************************************************************************)
NoProp == "undefined"
FieldEntry(prop, x) == [compareProp |-> prop, compare |-> "closure", x |-> x]
WholeEntry(c) == [compareProp |-> NoProp, compare |-> c.f, x |-> Omitted]
NoEntry == [compareProp |-> "none", compare |-> "none", x |-> Omitted]

\* the closure pushed by a field-named operation, applied to two field values
FieldCompare(x, o1, o2) ==
    IF ~ArgTruthy(x) THEN NaturalOrder(o1, o2)
    ELSE IF x.k = "function" THEN Call(x.f, o1, o2)
    ELSE IF isComparator(x) THEN Call(x.f, o1, o2)
    ELSE Throw("Unknown compare operation")

EntryCompare(e, p, q) ==
    IF e.compare = "closure" THEN FieldCompare(e.x, p, q) ELSE Call(e.compare, p, q)

_compareKeyValue(o1, o2, e) ==
    IF e.compareProp = NoProp THEN EntryCompare(e, o1, o2)
    ELSE EntryCompare(e, Get(o1, e.compareProp), Get(o2, e.compareProp))

\* initial != 0
NonZero(r) == r.k = "nan" \/ (r.k = "return" /\ r.v # 0)

\* the loop without its early return: every entry is evaluated, the last one decides
RECURSIVE CompareLoopNoShortCircuit(_, _, _, _, _, _)
CompareLoopNoShortCircuit(chain, o1, o2, i, initial, invoked) ==
    IF i > Len(chain) THEN [out |-> initial, invoked |-> invoked]
    ELSE LET next == _compareKeyValue(o1, o2, chain[i])
         IN  IF next.k = "throw"
             THEN [out |-> next, invoked |-> Append(invoked, i)]
             ELSE CompareLoopNoShortCircuit(chain, o1, o2, i + 1, next, Append(invoked, i))

\* the for loop of compare over rest, from entry i on; invoked lists the
\* entries whose compare function has been called so far
RECURSIVE CompareLoop(_, _, _, _, _, _)
CompareLoop(chain, o1, o2, i, initial, invoked) ==
    IF i > Len(chain) THEN [out |-> initial, invoked |-> invoked]
    ELSE IF NonZero(initial) THEN [out |-> initial, invoked |-> invoked]
    ELSE LET next == _compareKeyValue(o1, o2, chain[i])
         IN  IF next.k = "throw"
             THEN [out |-> next, invoked |-> Append(invoked, i)]
             ELSE CompareLoop(chain, o1, o2, i + 1, next, Append(invoked, i))

\* compare past its length check: [first, ...rest], then the loop
compareNonEmpty(chain, o1, o2) ==
    LET first == _compareKeyValue(o1, o2, chain[1])
    IN  IF first.k = "throw"
        THEN [out |-> first, invoked |-> <<1>>]
        ELSE CompareLoop(chain, o1, o2, 2, first, <<1>>)

\* compare without its length check: destructuring the entry `first` of an
\* empty chain raises
compareNoLengthCheck(chain, o1, o2) ==
    IF Len(chain) < 1 THEN [out |-> Throw("TypeError"), invoked |-> <<>>]
    ELSE compareNonEmpty(chain, o1, o2)

\* builder.compare(o1, o2) over the chain the builder closes over
compare(chain, o1, o2) ==
    IF Len(chain) < 1 THEN [out |-> Ret(0), invoked |-> <<>>]
    ELSE compareNonEmpty(chain, o1, o2)

\* one module-level array shared by every builder
SharedChain(h) == 1

\* const comparatorChain = []: a fresh array
NewChain(h) == Len(h) + 1

\* comparatorChain.unshift(entry)
PushFront(chain, e) == <<e>> \o chain

\* comparatorChain.push(entry)
Push(chain, e) == Append(chain, e)

ChainOf(bd) == heap[builders[bd].chain]

\* a reversed comparator that forgets to swap its arguments
ReversedCompareSameOrder(rv, o1, o2) == compare(ChainOf(rv.builder), o1, o2)

\* the comparator reversed() returns: compare(o1, o2) is builder.compare(o2, o1)
ReversedCompareFn(rv, o1, o2) == compare(ChainOf(rv.builder), o2, o1)

(***************************************************************************)
(* The calls of the builder API.                                           *)
(***************************************************************************)
BuilderIds == {1, 2}

\* what a call returns when it is not a number: a reference to an object
Ref(kind, id) == [k |-> kind, v |-> id, err |-> "none"]

Called(op, bd, e, o1, o2, out, invoked) ==
    [op |-> op, builder |-> bd, entry |-> e, o1 |-> o1, o2 |-> o2,
     out |-> out, invoked |-> invoked]

RECURSIVE SumLen(_, _)
SumLen(log, i) == IF i > Len(log) THEN 0 ELSE Len(log[i]) + SumLen(log, i + 1)
ExtCalls == SumLen(extLog, 1)

\* comparatorBuilder<T>()
ComparatorBuilderCall ==
    /\ Len(builders) + 1 \in BuilderIds
    /\ heap' = Append(heap, <<>>)
    /\ builders' = Append(builders, [chain |-> NewChain(heap)])
    /\ extLog' = Append(extLog, <<>>)
    /\ last' = Called("comparatorBuilder", Len(builders) + 1, NoEntry, NoRecord, NoRecord,
                      Ref("builder", Len(builders) + 1), <<>>)
    /\ UNCHANGED <<reversedObjs, naturalVars>>

\* builder.<prop>(x): the default case of the proxy
FieldOp(bd, prop, x) ==
    /\ bd \in 1..Len(builders)
    /\ ExtCalls < MaxExt
    /\ heap' = [heap EXCEPT ![builders[bd].chain] = Push(@, FieldEntry(prop, x))]
    /\ extLog' = [extLog EXCEPT ![bd] = Append(@, FieldEntry(prop, x))]
    /\ last' = Called("field", bd, FieldEntry(prop, x), NoRecord, NoRecord,
                      Ref("builder", bd), <<>>)
    /\ UNCHANGED <<builders, reversedObjs, naturalVars>>

\* builder.thenComparing(comparator)
ThenComparing(bd, c) ==
    /\ bd \in 1..Len(builders)
    /\ ExtCalls < MaxExt
    /\ heap' = [heap EXCEPT ![builders[bd].chain] = Push(@, WholeEntry(c))]
    /\ extLog' = [extLog EXCEPT ![bd] = Append(@, WholeEntry(c))]
    /\ last' = Called("thenComparing", bd, WholeEntry(c), NoRecord, NoRecord,
                      Ref("builder", bd), <<>>)
    /\ UNCHANGED <<builders, reversedObjs, naturalVars>>

\* builder.compare(o1, o2)
Compare(bd, o1, o2) ==
    /\ bd \in 1..Len(builders)
    /\ LET r == compare(ChainOf(bd), o1, o2)
       IN  last' = Called("compare", bd, NoEntry, o1, o2, r.out, r.invoked)
    /\ UNCHANGED <<heap, builders, reversedObjs, extLog, naturalVars>>

\* builder.reversed(); the caller keeps the first comparator it obtains from a
\* builder (a later one closes over the same builder and behaves the same)
Reversed(bd) ==
    /\ bd \in 1..Len(builders)
    /\ \A rv \in reversedObjs : rv.builder # bd
    /\ reversedObjs' = reversedObjs \cup {[builder |-> bd, made |-> Len(ChainOf(bd))]}
    /\ last' = Called("reversed", bd, NoEntry, NoRecord, NoRecord,
                      Ref("comparator", bd), <<>>)
    /\ UNCHANGED <<heap, builders, extLog, naturalVars>>

\* builder.reversed().compare(o1, o2), on an object reversed() returned earlier
ReversedCompare(rv, o1, o2) ==
    /\ rv \in reversedObjs
    /\ LET r == ReversedCompareFn(rv, o1, o2)
       IN  last' = Called("reversed.compare", rv.builder, NoEntry, o1, o2, r.out, r.invoked)
    /\ UNCHANGED <<heap, builders, reversedObjs, extLog, naturalVars>>

\* builder.getComparatorChain(): the live array
GetComparatorChain(bd) ==
    /\ bd \in 1..Len(builders)
    /\ last' = Called("getComparatorChain", bd, NoEntry, NoRecord, NoRecord,
                      Ref("array", builders[bd].chain), <<>>)
    /\ UNCHANGED <<heap, builders, reversedObjs, extLog, naturalVars>>

\* the field-named calls and comparators the callers of the model make
FieldCalls == {<<"foo", Omitted>>, <<"bar", FnArg("sub")>>, <<"bar", NumArg(42)>>}
Comparators == {ObjArg("byBar")}

NoCall == Called("none", 0, NoEntry, NoRecord, NoRecord, NotCalled, <<>>)

Init ==
    /\ heap = <<>>
    /\ builders = <<>>
    /\ reversedObjs = {}
    /\ extLog = <<>>
    /\ last = NoCall
    /\ a = Undefined
    /\ b = Undefined
    /\ natural = NotCalled
    /\ reverse = NotCalled

Next ==
    \/ ComparatorBuilderCall
    \/ \E bd \in BuilderIds, fc \in FieldCalls : FieldOp(bd, fc[1], fc[2])
    \/ \E bd \in BuilderIds, c \in Comparators : ThenComparing(bd, c)
    \/ \E bd \in BuilderIds, o1 \in Records, o2 \in Records : Compare(bd, o1, o2)
    \/ \E bd \in BuilderIds : Reversed(bd)
    \/ \E rv \in reversedObjs, o1 \in Records, o2 \in Records : ReversedCompare(rv, o1, o2)
    \/ \E bd \in BuilderIds : GetComparatorChain(bd)

Spec == Init /\ [][Next]_vars

(***************************************************************************)
(* NaturalOrder on its own: the two arguments are drawn at the start, the  *)
(* functions are applied to them, and a builder with a single entry on foo *)
(* (foo() or foo(comparator)) compares two records whose foo fields are    *)
(* the two arguments.                                                      *)
(***************************************************************************)
FieldRecord(v) == [foo |-> v, bar |-> Num(0)]

NaturalOrderCall ==
    /\ a # Absent /\ b # Absent
    /\ natural' = NaturalOrder(a, b)
    /\ UNCHANGED <<builderVars, a, b, reverse>>

ReverseNaturalOrderCall ==
    /\ a # Absent /\ b # Absent
    /\ reverse' = ReverseNaturalOrder(a, b)
    /\ UNCHANGED <<builderVars, a, b, natural>>

InitNatural ==
    /\ heap = <<>>
    /\ builders = <<>>
    /\ reversedObjs = {}
    /\ extLog = <<>>
    /\ last = NoCall
    /\ a \in Values \cup {Absent}
    /\ b \in Values \cup {Absent}
    /\ natural = NotCalled
    /\ reverse = NotCalled

NextNatural ==
    \/ NaturalOrderCall
    \/ ReverseNaturalOrderCall
    \/ builders = <<>> /\ ComparatorBuilderCall
    \/ ExtCalls = 0 /\ \E x \in {Omitted, ObjArg("seven")} : FieldOp(1, "foo", x)
    \/ Compare(1, FieldRecord(a), FieldRecord(b))

SpecNatural == InitNatural /\ [][NextNatural]_vars

(***************************************************************************)
(* Properties of compare and of the chain (checked under Spec).            *)
(***************************************************************************)
LastChain == ChainOf(last.builder)
\* what entry i of the chain returns for the arguments of the last compare call
EntryResult(i) == _compareKeyValue(last.o1, last.o2, LastChain[i])
FirstDeciding(i) == EntryResult(i) # Ret(0) /\ \A j \in 1..(i - 1) : EntryResult(j) = Ret(0)

\* C1: compare evaluates the entries in insertion order, each at most once, and
\* stops at the first entry that does not return 0: the call ends with exactly
\* that entry's outcome (its non-zero value; its error if it raises) and no
\* entry after it is invoked.  If every entry returns 0, every entry is
\* invoked exactly once and the result is 0.
C1_ShortCircuit ==
    last.op = "compare" =>
        /\ Len(last.invoked) <= Len(LastChain)
        /\ \A i \in 1..Len(last.invoked) : last.invoked[i] = i
        /\ \A i \in 1..Len(LastChain) :
              FirstDeciding(i) => Len(last.invoked) = i /\ last.out = EntryResult(i)
        /\ (\A i \in 1..Len(LastChain) : EntryResult(i) = Ret(0)) =>
              Len(last.invoked) = Len(LastChain) /\ last.out = Ret(0)

\* a chain [bar(sub), foo()] compared on bar 1 against bar 3: the first entry
\* returns -2 and the second is never invoked
C1_Witness ==
    /\ last.op = "compare"
    /\ Len(LastChain) = 2
    /\ LastChain[2].compare = "closure"
    /\ last.invoked = <<1>>
    /\ last.out = Ret(-2)

BadArg(x) == x.k # "undefined" /\ x.k # "function" /\ ~(x.k = "object" /\ x.f # "none")

\* C2: a field-named operation called with an argument that is neither omitted,
\* nor a function, nor an object exposing compare raises 'Unknown compare
\* operation' from the chain-extension call itself.
C2_UsageErrorAtExtension ==
    (last.op = "field" /\ BadArg(last.entry.x)) =>
        last.out = Throw("Unknown compare operation")

\* C3: reversed().compare(o1, o2) equals the builder's then-current
\* compare(o2, o1), also after the chain was extended since reversed() was
\* called; neither reversed() nor reversed().compare changes any chain.
C3_Reversed ==
    [][last'.op \in {"reversed", "reversed.compare"} =>
          /\ heap' = heap
          /\ builders' = builders
          /\ last'.op = "reversed.compare" =>
                last'.out = compare(heap'[builders'[last'.builder].chain],
                                    last'.o2, last'.o1).out]_vars

\* a reversed comparator obtained before the chain grew, called on a chain
\* that orders its two arguments
C3_Witness ==
    /\ last.op = "reversed.compare"
    /\ \E rv \in reversedObjs : rv.builder = last.builder /\ rv.made < Len(LastChain)
    /\ last.out.k = "return"
    /\ last.out.v > 0
    /\ compare(LastChain, last.o1, last.o2).out.v < 0

\* C6: on a builder on which no chain-extension call has been made, compare
\* and reversed().compare return 0 for every pair of inputs and do not raise.
C6_EmptyChain ==
    (last.op \in {"compare", "reversed.compare"} /\ extLog[last.builder] = <<>>) =>
        last.out = Ret(0)

\* reversed().compare on two different records, on a builder never extended
\* while the other builder has been
C6_Witness ==
    /\ last.op = "reversed.compare"
    /\ extLog[last.builder] = <<>>
    /\ last.o1 # last.o2
    /\ \E bd \in 1..Len(builders) : extLog[bd] # <<>>
    /\ last.out = Ret(0)

\* C9: a field-named call K(x) or thenComparing(c) appends exactly one entry
\* (fieldName K, respectively undefined) at the end of the chain of its builder
\* and returns that builder; every other call, and every call on another
\* builder, leaves the chain as it was.  Hence the chain is the sequence of
\* chain-extension calls made so far, in call order, and a compare made after
\* an extension reaches the new entry when the entries before it return 0.
C9_AppendOnly ==
    [][\A bd \in 1..Len(builders) :
          LET old == heap[builders[bd].chain]
              new == heap'[builders'[bd].chain]
          IN  /\ IF last'.op \in {"field", "thenComparing"} /\ last'.builder = bd
                 THEN /\ new = Append(old, last'.entry)
                      /\ last'.out = Ref("builder", bd)
                      /\ last'.op = "thenComparing" <=> last'.entry.compareProp = NoProp
                 ELSE new = old
              /\ new = extLog'[bd]
              /\ (last'.op = "compare" /\ last'.builder = bd /\ new # <<>>
                    /\ \A i \in 1..(Len(new) - 1) :
                          _compareKeyValue(last'.o1, last'.o2, new[i]) = Ret(0))
                 => last'.invoked[Len(last'.invoked)] = Len(new)]_vars

\* foo() then thenComparing(byBar) on one builder: two entries in call order
C9_Witness ==
    /\ last.op = "thenComparing"
    /\ Len(LastChain) = 2
    /\ LastChain[1].compareProp = "foo"
    /\ LastChain[2].compareProp = NoProp
    /\ LastChain = extLog[last.builder]

\* C10: two builders from two comparatorBuilder() calls close over different
\* chains; a call on one builder leaves the other builder's chain unchanged,
\* whatever the interleaving, and what compare and reversed().compare return
\* on a builder is decided by the chain-extension calls made on that builder
\* alone.
C10_Independent ==
    [][/\ \A b1 \in 1..Len(builders'), b2 \in 1..Len(builders') :
             b1 # b2 => builders'[b1].chain # builders'[b2].chain
       /\ \A bd \in 1..Len(builders) :
             last'.builder # bd =>
                /\ builders'[bd] = builders[bd]
                /\ heap'[builders'[bd].chain] = heap[builders[bd].chain]
       /\ last'.op = "compare" =>
             last'.out = compare(extLog'[last'.builder], last'.o1, last'.o2).out
       /\ last'.op = "reversed.compare" =>
             last'.out = compare(extLog'[last'.builder], last'.o2, last'.o1).out]_vars

\* interleaved extension: both builders hold one entry, different ones
C10_Witness ==
    /\ Len(builders) = 2
    /\ last.op = "field"
    /\ last.builder = 1
    /\ Len(ChainOf(1)) = 1
    /\ Len(ChainOf(2)) = 1
    /\ ChainOf(1) # ChainOf(2)

(***************************************************************************)
(* Properties of NaturalOrder (checked under SpecNatural).                 *)
(***************************************************************************)
NaturalCalled == natural # NotCalled
ReverseCalled == reverse # NotCalled

\* C4: for non-null a and b that are not equal, NaturalOrder(a, b) and
\* NaturalOrder(b, a) are both non-zero and of opposite signs.
C4_SignAntisymmetry ==
    (/\ NaturalCalled /\ ReverseCalled
     /\ ~IsNullish(a) /\ ~IsNullish(b)
     /\ a # b /\ ~LooseEq(a, b)) =>
        /\ natural.k = "return"
        /\ reverse.k = "return"
        /\ natural.v # 0
        /\ reverse.v # 0
        /\ natural.v < 0 <=> reverse.v > 0

\* C5 as stated: NaturalOrder(x, x) is 0 for all x, NaN included.
C5_ReflexiveForAll ==
    (NaturalCalled /\ a = b) => natural = Ret(0)

\* C5 as amended: NaturalOrder(x, x) is 0 for every x other than NaN (null,
\* undefined, strings, numbers, objects), by the equality fast path;
\* NaturalOrder(NaN, NaN) is 1, NaN not being equal to itself.
C5_Reflexive ==
    (NaturalCalled /\ a = b) =>
        /\ a.t # "nan" => LooseEq(a, b) /\ natural = Ret(0)
        /\ a.t = "nan" => natural = Ret(1)

\* an object compared with itself
C5_Witness ==
    /\ NaturalCalled
    /\ a = b
    /\ a.t = "object"
    /\ natural = Ret(0)

\* C7: NaturalOrder returns -1 when only a is null or undefined, 1 when only b
\* is, and 0 when both are; so a chain with the single entry foo() returns 0
\* when foo is absent in both records, a negative value when it is absent only
\* in the first and a positive value when it is absent only in the second (the
\* other record holding a value that is neither null nor undefined), and does
\* not raise.
C7_NullsFirst ==
    /\ NaturalCalled =>
          /\ (IsNullish(a) /\ IsNullish(b)) => natural = Ret(0)
          /\ (IsNullish(a) /\ ~IsNullish(b)) => natural = Ret(-1)
          /\ (~IsNullish(a) /\ IsNullish(b)) => natural = Ret(1)
    /\ (last.op = "compare" /\ LastChain = <<FieldEntry("foo", Omitted)>>) =>
          LET present(v) == v # Absent /\ ~IsNullish(v)
          IN  /\ (a = Absent /\ b = Absent) => last.out = Ret(0)
              /\ (a = Absent /\ present(b)) => last.out.k = "return" /\ last.out.v < 0
              /\ (present(a) /\ b = Absent) => last.out.k = "return" /\ last.out.v > 0

\* foo absent in the first record only, the second holding the string 'a'
C7_Witness ==
    /\ last.op = "compare"
    /\ LastChain = <<FieldEntry("foo", Omitted)>>
    /\ a = Absent
    /\ b = Str(<<97>>)
    /\ last.out = Ret(-1)

ExposesCompareTo(o) == o.t = "object" /\ o.ct = "function"

\* C8: for two non-null values that are not loosely equal, do not both expose
\* compareTo and are not both strings, NaturalOrder does not raise and returns
\* -1 if b > a and 1 otherwise.
C8_PrimitiveFallback ==
    (/\ NaturalCalled
     /\ ~IsNullish(a) /\ ~IsNullish(b)
     /\ ~LooseEq(a, b)
     /\ ~(ExposesCompareTo(a) /\ ExposesCompareTo(b))
     /\ ~(a.t = "string" /\ b.t = "string")) =>
        natural = IF GreaterThan(b, a) THEN Ret(-1) ELSE Ret(1)

====
